---- MODULE Spec2Model ----
(***************************************************************************)
(* Model of the sheen look-up-table fitter (main.py) and of the converter  *)
(* that produces its input (thirdparty/read_dds.py).                       *)
(*                                                                         *)
(* One behaviour of the model is one run of one operation, selected by     *)
(* `mode` in the initial state:                                            *)
(*   "quadtree"  build_quadtree on an H x W grid (with fit_bilinear_plane) *)
(*   "design"    main's term enumeration and design matrix                 *)
(*   "load"      main's text loader on an arbitrary text                   *)
(*   "convert"   save_to_txt on a list of values, then main's loader       *)
(*   "dds"       read_dds_rgba16f on a file                                *)
(*                                                                         *)
(* Arrays are functions over 0..n-1, as in the source.  A real number is   *)
(* a pair <<numerator, denominator>> with a positive denominator.          *)
(***************************************************************************)
EXTENDS Integers, Sequences, FiniteSets, TLC

VARIABLES mode, pc,
          H, W, lut,
          max_depth0, mse_threshold, stack, leaves, fit,
          deg, terms, ij, mesh, X, k, target,
          values, idx, content, data_str, data,
          file, header, pixel_data, ret

gvars == <<H, W, lut>>
qvars == <<max_depth0, mse_threshold, stack, leaves, fit>>
dvars == <<deg, terms, ij, mesh, X, k, target>>
tvars == <<values, idx, content, data_str, data>>
fvars == <<file, header, pixel_data, ret>>
vars == <<mode, pc, gvars, qvars, dvars, tvars, fvars>>

(***************************************************************************)
(* Bounds of the model.                                                    *)
(***************************************************************************)
MaxDim == 6
MaxDepth == 2
MaxDeg == 4
MaxGrid == 3
MaxText == 5
MaxValues == 21
Slack == 2

(***************************************************************************)
(* Arithmetic helpers.                                                     *)
(***************************************************************************)
Size(a) == Cardinality(DOMAIN a)

RECURSIVE SumFn(_, _)
SumFn(f, n) == IF n = 0 THEN 0 ELSE f[n - 1] + SumFn(f, n - 1)

\* products and equality of reals <<numerator, denominator>>
RatMul(x, y) == <<x[1] * y[1], x[2] * y[2]>>
RatEq(x, y) == x[1] * y[2] = y[1] * x[2]

RECURSIVE Pow(_, _)
Pow(b, e) == IF e = 0 THEN 1 ELSE b * Pow(b, e - 1)

Max(a, b) == IF a >= b THEN a ELSE b
Min(a, b) == IF a <= b THEN a ELSE b

\* np.linspace(0, 1, n): n evenly spaced values from 0 to 1, k/(n-1);
\* a single value 0 when n = 1.
linspace(n) == [e \in 0..(n - 1) |-> <<e, Max(n - 1, 1)>>]

\* a[lo:hi] on a one-dimensional array
Slice(a, lo, hi) == [e \in 0..(hi - lo - 1) |-> a[lo + e]]

\* a[i0:i1, j0:j1] on a two-dimensional array
Slice2(a, i0, i1, j0, j1) ==
    [u \in 0..(i1 - i0 - 1) |-> [v \in 0..(j1 - j0 - 1) |-> a[i0 + u][j0 + v]]]

\* np.array(data).reshape(H, W)
reshape(flat, h, w) == [a \in 0..(h - 1) |-> [b \in 0..(w - 1) |-> flat[a * w + b]]]

\* the shape of a two-dimensional array
Rows(a) == Size(a)
Cols(a) == IF Size(a) = 0 THEN 0 ELSE Size(a[0])

\* ndarray.ravel() of a two-dimensional array: row-major flattening
Ravel(a) == [p \in 0..(Rows(a) * Cols(a) - 1) |-> a[p \div Cols(a)][p % Cols(a)]]

\* np.meshgrid(r, c) with numpy's default indexing='xy': both outputs have
\* shape (len(c), len(r)), R[a][b] = r[b], C[a][b] = c[a]
meshgrid_xy(r, c) ==
    [R |-> [a \in DOMAIN c |-> [b \in DOMAIN r |-> r[b]]],
     C |-> [a \in DOMAIN c |-> [b \in DOMAIN r |-> c[a]]]]

\* np.meshgrid(r, c, indexing='ij'): R[a][b] = r[a], C[a][b] = c[b]
meshgrid(r, c) ==
    [R |-> [a \in DOMAIN r |-> [b \in DOMAIN c |-> r[a]]],
     C |-> [a \in DOMAIN r |-> [b \in DOMAIN c |-> c[b]]]]

(***************************************************************************)
(* The sample grids the quadtree is run on: a constant grid, an exact      *)
(* plane, a checkerboard and an irregular grid.                            *)
(***************************************************************************)
LutKinds == {"flat", "plane", "checker", "bumpy"}

LutValue(kind, i, j) ==
    CASE kind = "flat" -> 0
      [] kind = "plane" -> i + 2 * j
      [] kind = "checker" -> (i + j) % 2
      [] OTHER -> (i * i + 3 * j) % 5

MakeLut(kind, h, w) == [i \in 0..(h - 1) |-> [j \in 0..(w - 1) |-> LutValue(kind, i, j)]]

\* the values of mse_threshold: one that every error exceeds, zero, and two
\* positive ones
Thresholds == {<<0 - 1, 1>>, <<0, 1>>, <<1, 1>>, <<20, 1>>}

(***************************************************************************)
(* fit_bilinear_plane                                                      *)
(***************************************************************************)
One == <<1, 1>>

\* X[:, col] = src on an array of `rows` rows: numpy broadcasts a source
\* of length 1, copies a source of length `rows`, and raises ValueError
\* for any other length.
CanAssignColumn(rows, src) == Size(src) = rows \/ Size(src) = 1

AssignColumn(M, col, src) ==
    [p \in DOMAIN M |-> [M[p] EXCEPT ![col] = IF Size(src) = 1 THEN src[0] ELSE src[p]]]

\* A fit whose matrix is filled from the full coordinate grids
\* (np.repeat / np.tile of the two coordinate vectors), which never raises.
fit_bilinear_plane_tiled(lut_region, r_norm, c_norm) ==
    LET n == Size(r_norm)
        m == Size(c_norm)
        grid == meshgrid(r_norm, c_norm)
        rr == Ravel(grid.R)
        cr == Ravel(grid.C)
    IN  [called |-> TRUE, n |-> n, m |-> m, r_norm |-> r_norm, c_norm |-> c_norm,
         raised |-> FALSE,
         X |-> [p \in 0..(n * m - 1) |-> <<One, rr[p], cr[p]>>],
         y |-> Ravel(lut_region),
         coeffs |-> <<"a", "b", "c">>]

\* The function up to the lstsq call: the regression matrix X and the
\* target y, or the exception raised while X is filled.
fit_bilinear_plane(lut_region, r_norm, c_norm) ==
    LET n == Size(r_norm)
        m == Size(c_norm)
        r_region == [a \in 0..(n - 1) |-> [b \in 0..0 |-> r_norm[a]]]
        c_region == [a \in 0..0 |-> [b \in 0..(m - 1) |-> c_norm[b]]]
        rows == n * m
        X0 == [p \in 0..(rows - 1) |-> <<One, One, One>>]
        rr == Ravel(r_region)
        cr == Ravel(c_region)
    IN  IF ~CanAssignColumn(rows, rr)
        THEN [called |-> TRUE, n |-> n, m |-> m, r_norm |-> r_norm, c_norm |-> c_norm,
              raised |-> TRUE]
        ELSE LET X1 == AssignColumn(X0, 2, rr)
             IN  IF ~CanAssignColumn(rows, cr)
                 THEN [called |-> TRUE, n |-> n, m |-> m, r_norm |-> r_norm,
                       c_norm |-> c_norm, raised |-> TRUE]
                 ELSE [called |-> TRUE, n |-> n, m |-> m, r_norm |-> r_norm,
                       c_norm |-> c_norm, raised |-> FALSE,
                       X |-> AssignColumn(X1, 3, cr),
                       y |-> Ravel(lut_region),
                       coeffs |-> <<"a", "b", "c">>]

(***************************************************************************)
(* The mean squared error of the least-squares plane over a region.        *)
(*                                                                         *)
(* lstsq returns a minimiser of ||X.coeffs - y||^2, so                     *)
(* mean((lut_region - predicted)^2) is the squared distance of y to the    *)
(* span of [1, r, c], divided by N = n*m.  On a full n x m grid r and c    *)
(* are orthogonal after centring, which gives                              *)
(*     N^2 * mse = A - Br^2/Cr - Bc^2/Cc                                   *)
(*     A  = N*Sum(y^2) - Sum(y)^2                                          *)
(*     Br = n*Sum_u(r[u]*Yrow[u]) - Sum(r)*Sum(y),  Cr = n*Sum(r^2)-Sum(r)^2 *)
(*     Bc, Cc: the same for the columns                                    *)
(* where Yrow[u] is the sum of row u, and a term is absent when its        *)
(* coordinate is constant (Cr = 0 or Cc = 0).  The value does not change   *)
(* when a coordinate is rescaled, so the sums use the numerators of the    *)
(* coordinates.  The result is the pair <<numerator, denominator>>.        *)
(***************************************************************************)
mse_local(lut_region, r_region, c_region) ==
    LET n == Size(r_region)
        m == Size(c_region)
        N == n * m
        y == Ravel(lut_region)
        Yrow == [u \in 0..(n - 1) |-> SumFn(lut_region[u], m)]
        Ycol == [v \in 0..(m - 1) |-> SumFn([u \in 0..(n - 1) |-> lut_region[u][v]], n)]
        Sy == SumFn(y, N)
        Sr == SumFn([u \in 0..(n - 1) |-> r_region[u][1]], n)
        Sc == SumFn([v \in 0..(m - 1) |-> c_region[v][1]], m)
        A == N * SumFn([p \in 0..(N - 1) |-> y[p] * y[p]], N) - Sy * Sy
        Br == n * SumFn([u \in 0..(n - 1) |-> r_region[u][1] * Yrow[u]], n) - Sr * Sy
        Cr == n * SumFn([u \in 0..(n - 1) |-> r_region[u][1] * r_region[u][1]], n) - Sr * Sr
        Bc == m * SumFn([v \in 0..(m - 1) |-> c_region[v][1] * Ycol[v]], m) - Sc * Sy
        Cc == m * SumFn([v \in 0..(m - 1) |-> c_region[v][1] * c_region[v][1]], m) - Sc * Sc
        Crz == Max(Cr, 1)
        Ccz == Max(Cc, 1)
    IN  <<A * Crz * Ccz - Br * Br * Ccz - Bc * Bc * Crz, N * N * Crz * Ccz>>

\* The outcomes of `mse_local > mse_threshold`.  The exact comparison
\* decides it unless the two are equal: then the rounding of the floating
\* point fit decides, and both outcomes are possible.
MseExceeds(mse, thr) ==
    IF mse[1] * thr[2] > thr[1] * mse[2] THEN {TRUE}
    ELSE IF mse[1] * thr[2] < thr[1] * mse[2] THEN {FALSE}
    ELSE BOOLEAN

(***************************************************************************)
(* build_quadtree                                                          *)
(***************************************************************************)
\* the condition of the `if` of build_quadtree
ShouldSubdivide(i0, i1, j0, j1, max_depth, exceeds) ==
    (i1 - i0 > 4 /\ j1 - j0 > 4) /\ exceeds /\ max_depth > 0

\* the four recursive calls, in the order the loops make them
Children(f) ==
    LET mid_i == (f.i0 + f.i1) \div 2
        mid_j == (f.j0 + f.j1) \div 2
        Call(ii0, ii1, jj0, jj1) ==
            [i0 |-> ii0, i1 |-> ii1, j0 |-> jj0, j1 |-> jj1,
             max_depth |-> f.max_depth - 1]
    IN  << Call(f.i0, mid_i, f.j0, mid_j), Call(f.i0, mid_i, mid_j, f.j1),
           Call(mid_i, f.i1, f.j0, mid_j), Call(mid_i, f.i1, mid_j, f.j1) >>

\* the record a leaf call returns; a, b, c are the coefficients of its fit
Leaf(f, coeffs) ==
    [i0 |-> f.i0, i1 |-> f.i1, j0 |-> f.j0, j1 |-> f.j1,
     a |-> coeffs[1], b |-> coeffs[2], c |-> coeffs[3],
     depth |-> max_depth0 - f.max_depth]

RootCall(h, w, d) == [i0 |-> 0, i1 |-> h, j0 |-> 0, j1 |-> w, max_depth |-> d]

\* One invocation of build_quadtree: the call on top of the stack runs up
\* to its recursive calls.  An exception in fit_bilinear_plane ends the
\* whole root call and nothing is returned.
build_quadtree ==
    /\ mode = "quadtree"
    /\ pc = "running"
    /\ stack # <<>>
    /\ LET f == Head(stack)
           lut_region == Slice2(lut, f.i0, f.i1, f.j0, f.j1)
           r_region == Slice(linspace(H), f.i0, f.i1)
           c_region == Slice(linspace(W), f.j0, f.j1)
           res == fit_bilinear_plane(lut_region, r_region, c_region)
       IN  /\ fit' = res
           /\ IF res.raised
              THEN /\ pc' = "raised"
                   /\ stack' = <<>>
                   /\ leaves' = <<>>
              ELSE \E exceeds \in MseExceeds(mse_local(lut_region, r_region, c_region),
                                             mse_threshold) :
                       IF ShouldSubdivide(f.i0, f.i1, f.j0, f.j1, f.max_depth, exceeds)
                       THEN /\ stack' = Children(f) \o Tail(stack)
                            /\ leaves' = leaves
                            /\ pc' = "running"
                       ELSE /\ stack' = Tail(stack)
                            /\ leaves' = Append(leaves, Leaf(f, res.coeffs))
                            /\ pc' = IF Tail(stack) = <<>> THEN "returned" ELSE "running"
    /\ UNCHANGED <<mode, gvars, max_depth0, mse_threshold, dvars, tvars, fvars>>

(***************************************************************************)
(* Text: a text is a sequence of one-character strings.                    *)
(***************************************************************************)
DigitSeq == <<"0", "1", "2", "3", "4", "5", "6", "7", "8", "9">>
DigitChars == {DigitSeq[d] : d \in 1..10}
DigitVal(ch) == CHOOSE d \in 0..9 : DigitSeq[d + 1] = ch
IsDigit(ch) == ch \in DigitChars
IsSpace(ch) == ch \in {" ", "\n", "\t", "\r"}

RECURSIVE LStrip(_)
LStrip(s) == IF s # <<>> /\ IsSpace(Head(s)) THEN LStrip(Tail(s)) ELSE s

RECURSIVE RStrip(_)
RStrip(s) ==
    IF s # <<>> /\ IsSpace(s[Len(s)]) THEN RStrip(SubSeq(s, 1, Len(s) - 1)) ELSE s

\* str.strip()
strip(s) == RStrip(LStrip(s))

\* str.split(sep) for a one-character separator: always at least one piece
RECURSIVE split(_, _)
split(s, sep) ==
    IF \A p \in 1..Len(s) : s[p] # sep
    THEN <<s>>
    ELSE LET at == CHOOSE p \in 1..Len(s) : s[p] = sep /\ \A e \in 1..(p - 1) : s[e] # sep
         IN  <<SubSeq(s, 1, at - 1)>> \o split(SubSeq(s, at + 1, Len(s)), sep)

\* the value of a sequence of digits
RECURSIVE DigitsValue(_)
DigitsValue(s) ==
    IF s = <<>> THEN 0 ELSE 10 * DigitsValue(SubSeq(s, 1, Len(s) - 1)) + DigitVal(s[Len(s)])

\* the decimal digits of a natural number
RECURSIVE IntDigits(_)
IntDigits(x) ==
    IF x < 10 THEN <<DigitSeq[x + 1]>> ELSE IntDigits(x \div 10) \o <<DigitSeq[(x % 10) + 1]>>

\* the number of digits s starts with
RECURSIVE LeadingDigits(_)
LeadingDigits(s) ==
    IF s # <<>> /\ IsDigit(Head(s)) THEN 1 + LeadingDigits(Tail(s)) ELSE 0

\* float(text) for texts made of digits, a sign, a point and white space:
\* white space around the number is ignored, then an optional sign, digits
\* with at most one point and at least one digit.  Anything else raises
\* ValueError (ok = FALSE).
float(text) ==
    LET s == strip(text)
        signed == s # <<>> /\ Head(s) \in {"-", "+"}
        body == IF signed THEN Tail(s) ELSE s
        a == LeadingDigits(body)
        rest == SubSeq(body, a + 1, Len(body))
        frac == IF rest = <<>> THEN <<>> ELSE Tail(rest)
        wellformed == /\ rest # <<>> => Head(rest) = "."
                      /\ \A p \in 1..Len(frac) : IsDigit(frac[p])
                      /\ a + Len(frac) >= 1
        magnitude == DigitsValue(SubSeq(body, 1, a)) * Pow(10, Len(frac)) + DigitsValue(frac)
    IN  IF wellformed
        THEN [ok |-> TRUE,
              value |-> <<IF signed /\ Head(s) = "-" THEN 0 - magnitude ELSE magnitude,
                          Pow(10, Len(frac))>>]
        ELSE [ok |-> FALSE]

\* f'{value}' for a float that is a multiple of 1/2, given as <<n, 2>>:
\* the shortest decimal that reads back as the value, "-1.5", "0.0", "10.5"
format(v) ==
    LET mag == IF v[1] < 0 THEN 0 - v[1] ELSE v[1]
    IN  (IF v[1] < 0 THEN <<"-">> ELSE <<>>)
            \o IntDigits(mag \div 2) \o <<".">> \o (IF mag % 2 = 1 THEN <<"5">> ELSE <<"0">>)

(***************************************************************************)
(* save_to_txt                                                             *)
(***************************************************************************)
\* what one iteration of the loop writes for values[i] (i counted from 0)
WriteValue(i, value) ==
    (IF i > 0 THEN <<",", " ">> ELSE <<>>)
        \o (IF i % 10 = 0 /\ i > 0 THEN <<"\n", " ">> ELSE <<>>)
        \o format(value)

\* f.write('[') is done in the initial state of the mode; this is one
\* iteration of the loop, or the final f.write(']') after which main reads
\* the file.
save_to_txt ==
    /\ mode = "convert"
    /\ pc = "save"
    /\ IF idx < Len(values)
       THEN /\ content' = content \o WriteValue(idx, values[idx + 1])
            /\ idx' = idx + 1
            /\ pc' = pc
       ELSE /\ content' = content \o <<"]">>
            /\ pc' = "read"
            /\ idx' = idx
    /\ UNCHANGED <<mode, gvars, qvars, dvars, values, data_str, data, fvars>>

(***************************************************************************)
(* main: the loader                                                        *)
(***************************************************************************)
\* a version that only removes the first character
strip_brackets_first(text) == SubSeq(strip(text), 2, Len(strip(text)))

\* content.strip()[1:-1]
strip_brackets(text) == SubSeq(strip(text), 2, Len(strip(text)) - 1)

\* [float(val.strip()) for val in data_str.split(",")]
parse_list(text) ==
    LET toks == split(text, ",")
        nums == [p \in 1..Len(toks) |-> float(strip(toks[p]))]
    IN  IF \A p \in 1..Len(toks) : nums[p].ok
        THEN [ok |-> TRUE, data |-> [p \in 1..Len(toks) |-> nums[p].value]]
        ELSE [ok |-> FALSE]

\* data_str = content.strip()[1:-1]
load_strip ==
    /\ mode \in {"load", "convert"}
    /\ pc = "read"
    /\ data_str' = strip_brackets(content)
    /\ pc' = "parse"
    /\ UNCHANGED <<mode, gvars, qvars, dvars, values, idx, content, data, fvars>>

\* data = [float(val.strip()) for val in data_str.split(",")]
load_parse ==
    /\ mode \in {"load", "convert"}
    /\ pc = "parse"
    /\ LET res == parse_list(data_str)
       IN  IF res.ok
           THEN /\ data' = res.data
                /\ pc' = "reshape"
           ELSE /\ data' = data
                /\ pc' = "ValueError"
    /\ UNCHANGED <<mode, gvars, qvars, dvars, values, idx, content, data_str, fvars>>

\* lut = np.array(data).reshape(H, W): raises unless there are H*W values
load_reshape ==
    /\ mode \in {"load", "convert"}
    /\ pc = "reshape"
    /\ IF Len(data) = H * W
       THEN /\ lut' = reshape([p \in 0..(H * W - 1) |-> data[p + 1]], H, W)
            /\ pc' = "loaded"
       ELSE /\ lut' = lut
            /\ pc' = "ValueError"
    /\ UNCHANGED <<mode, H, W, qvars, dvars, tvars, fvars>>

TextIdle ==
    /\ values = <<>>
    /\ idx = 0
    /\ content = <<>>
    /\ data_str = <<>>
    /\ data = <<>>

\* the texts the loader is run on
TextChars == {"[", "]", ",", " ", "1", "x"}

Texts == UNION {[1..n -> TextChars] : n \in 0..MaxText}

\* the lists of values the converter writes: multiples of 1/2
ValuePatterns == {"zero", "rising", "falling"}

ValueAt(pattern, i) ==
    CASE pattern = "zero" -> <<0, 2>>
      [] pattern = "rising" -> <<i, 2>>
      [] OTHER -> <<0 - (i + 1), 2>>

(***************************************************************************)
(* read_dds_rgba16f.  A file is its size in bytes and its first four       *)
(* bytes; the bytes read are given by their offset and count.              *)
(***************************************************************************)
HeaderBytes == 128
width == 128
height == 128
channels == 4
bytes_per_channel == 2
total_bytes == width * height * channels * bytes_per_channel

\* f.read(n) at offset pos: the n next bytes, or those left before the end
read(f, pos, n) == [from |-> pos, len |-> Min(n, Max(f.size - pos, 0))]

\* a length check that also rejects a payload of exactly total_bytes
IsIncomplete_le(got, total) == got <= total

\* len(pixel_data) < total_bytes
IsIncomplete(got, total) == got < total

\* open(filepath, 'rb')
dds_open ==
    /\ mode = "dds"
    /\ pc = "open"
    /\ IF file.exists
       THEN /\ pc' = "header"
            /\ ret' = ret
       ELSE /\ pc' = "done"
            /\ ret' = [kind |-> "raise", error |-> "FileNotFoundError", message |-> ""]
    /\ UNCHANGED <<mode, gvars, qvars, dvars, tvars, file, header, pixel_data>>

\* header = f.read(128); magic = header[:4]; if magic != b'DDS ': raise
dds_read_header ==
    /\ mode = "dds"
    /\ pc = "header"
    /\ LET h == read(file, 0, HeaderBytes)
           magic == IF h.len >= 4 THEN file.head4 ELSE "short"
       IN  /\ header' = h
           /\ IF magic # "DDS "
              THEN /\ pc' = "done"
                   /\ ret' = [kind |-> "raise", error |-> "ValueError",
                              message |-> "Invalid DDS"]
              ELSE /\ pc' = "pixels"
                   /\ ret' = ret
    /\ UNCHANGED <<mode, gvars, qvars, dvars, tvars, file, pixel_data>>

\* pixel_data = f.read(total_bytes); the length check; the return
dds_read_pixels ==
    /\ mode = "dds"
    /\ pc = "pixels"
    /\ LET got == read(file, header.len, total_bytes)
       IN  /\ pixel_data' = got
           /\ pc' = "done"
           /\ IF IsIncomplete(got.len, total_bytes)
              THEN ret' = [kind |-> "raise", error |-> "ValueError",
                           message |-> "Incomplete file"]
              ELSE ret' = [kind |-> "return", pixel_data |-> got,
                           width |-> width, height |-> height]
    /\ UNCHANGED <<mode, gvars, qvars, dvars, tvars, file, header>>

DdsIdle ==
    /\ file = [exists |-> FALSE]
    /\ header = [from |-> 0, len |-> 0]
    /\ pixel_data = [from |-> 0, len |-> 0]
    /\ ret = [kind |-> "none"]

\* the sizes of the files read: around the magic, the end of the header
\* and the end of the payload
FileSizes ==
    (0..(4 + Slack))
        \cup ((HeaderBytes - Slack)..(HeaderBytes + Slack))
        \cup ((HeaderBytes + total_bytes - Slack)..(HeaderBytes + total_bytes + Slack))

QuadtreeIdle ==
    /\ max_depth0 = 0
    /\ mse_threshold = <<0, 1>>
    /\ stack = <<>>
    /\ leaves = <<>>
    /\ fit = [called |-> FALSE]

(***************************************************************************)
(* main: the term enumeration and the design matrix.  main fixes the grid  *)
(* at 128 x 128 and deg at 12; the model runs the same statements on an    *)
(* H x W grid and a degree deg.  The sample lut[a][b] is the value at      *)
(* position a*W + b of the loaded data (reshape), and is represented by    *)
(* that position.                                                          *)
(***************************************************************************)
\* the numerator of T_i(kk/q) over the denominator q^i:
\* T_0 = 1, T_1 = x, T_i = 2x.T_(i-1) - T_(i-2)
RECURSIVE ChebNum(_, _, _)
ChebNum(i, kk, q) ==
    IF i = 0 THEN 1
    ELSE IF i = 1 THEN kk
    ELSE 2 * kk * ChebNum(i - 1, kk, q) - q * q * ChebNum(i - 2, kk, q)

\* chebval(x, [0]*i + [1]): the Chebyshev polynomial T_i at x
chebval(x, i) == <<ChebNum(i, x[1], x[2]), Pow(x[2], i)>>

\* an inner loop over range(deg + 1): the full tensor product
InnerRange_tensor(d, i) == d + 1

\* the number of values of j the inner loop of the enumeration runs over
\* for a given i: range(deg - i + 1)
InnerRange(d, i) == d - i + 1

\* one step of  terms = [(i, j) for i in range(deg + 1)
\*                               for j in range(deg - i + 1)]
enumerate_term ==
    /\ mode = "design"
    /\ pc = "terms"
    /\ LET i == ij[1]
           j == ij[2]
       IN  IF i >= deg + 1
           THEN /\ pc' = "meshgrid"
                /\ UNCHANGED <<terms, ij>>
           ELSE IF j >= InnerRange(deg, i)
           THEN /\ ij' = <<i + 1, 0>>
                /\ UNCHANGED <<terms, pc>>
           ELSE /\ terms' = Append(terms, <<i, j>>)
                /\ ij' = <<i, j + 1>>
                /\ pc' = pc
    /\ UNCHANGED <<mode, gvars, qvars, deg, mesh, X, k, target, tvars, fvars>>

\* R_, C_ = np.meshgrid(r, c, indexing='ij'); X = np.zeros((H*W, n_terms))
make_meshgrid ==
    /\ mode = "design"
    /\ pc = "meshgrid"
    /\ mesh' = meshgrid(linspace(H), linspace(W))
    /\ X' = [p \in 0..(H * W - 1) |-> [col \in 1..Len(terms) |-> <<0, 1>>]]
    /\ k' = 0
    /\ pc' = "columns"
    /\ UNCHANGED <<mode, gvars, qvars, deg, terms, ij, target, tvars, fvars>>

\* one iteration of the loop over terms:
\*   X[:, k] = chebval(R_.ravel(), ..i..) * chebval(C_.ravel(), ..j..); k += 1
\* and, after the last one, the target lut.ravel() of the lstsq call
fill_column ==
    /\ mode = "design"
    /\ pc = "columns"
    /\ IF k < Len(terms)
       THEN LET i == terms[k + 1][1]
                j == terms[k + 1][2]
                Rr == Ravel(mesh.R)
                Cr == Ravel(mesh.C)
                src == [p \in DOMAIN Rr |-> RatMul(chebval(Rr[p], i), chebval(Cr[p], j))]
            IN  IF CanAssignColumn(Size(X), src)
                THEN /\ X' = AssignColumn(X, k + 1, src)
                     /\ k' = k + 1
                     /\ UNCHANGED <<pc, target>>
                ELSE /\ pc' = "raised"
                     /\ UNCHANGED <<X, k, target>>
       ELSE /\ target' = Ravel(lut)
            /\ pc' = "lstsq"
            /\ UNCHANGED <<X, k>>
    /\ UNCHANGED <<mode, gvars, qvars, deg, terms, ij, mesh, tvars, fvars>>

DesignIdle ==
    /\ deg = 0
    /\ terms = <<>>
    /\ ij = <<0, 0>>
    /\ mesh = [R |-> <<>>, C |-> <<>>]
    /\ X = <<>>
    /\ k = 0
    /\ target = <<>>

InitQuadtree ==
    /\ mode = "quadtree"
    /\ pc = "running"
    /\ H \in 1..MaxDim
    /\ W \in 1..MaxDim
    /\ \E kind \in LutKinds : lut = MakeLut(kind, H, W)
    /\ max_depth0 \in 0..MaxDepth
    /\ mse_threshold \in Thresholds
    /\ stack = <<RootCall(H, W, max_depth0)>>
    /\ leaves = <<>>
    /\ fit = [called |-> FALSE]
    /\ DesignIdle
    /\ TextIdle
    /\ DdsIdle

InitDesign ==
    /\ mode = "design"
    /\ pc = "terms"
    /\ H \in 1..MaxGrid
    /\ W \in 1..MaxGrid
    /\ lut = reshape([p \in 0..(H * W - 1) |-> p], H, W)
    /\ deg \in 0..MaxDeg
    /\ terms = <<>>
    /\ ij = <<0, 0>>
    /\ mesh = [R |-> <<>>, C |-> <<>>]
    /\ X = <<>>
    /\ k = 0
    /\ target = <<>>
    /\ QuadtreeIdle
    /\ TextIdle
    /\ DdsIdle

InitLoad ==
    /\ mode = "load"
    /\ pc = "read"
    /\ H = 1
    /\ W \in 1..MaxGrid
    /\ lut = <<>>
    /\ content \in Texts
    /\ values = <<>>
    /\ idx = 0
    /\ data_str = <<>>
    /\ data = <<>>
    /\ QuadtreeIdle
    /\ DesignIdle
    /\ DdsIdle

InitConvert ==
    /\ mode = "convert"
    /\ pc = "save"
    /\ \E n \in 0..MaxValues, pattern \in ValuePatterns :
           /\ values = [p \in 1..n |-> ValueAt(pattern, p - 1)]
           /\ H = 1
           /\ W = n
    /\ lut = <<>>
    /\ content = <<"[">>
    /\ idx = 0
    /\ data_str = <<>>
    /\ data = <<>>
    /\ QuadtreeIdle
    /\ DesignIdle
    /\ DdsIdle

InitDds ==
    /\ mode = "dds"
    /\ pc = "open"
    /\ H = 1
    /\ W = 1
    /\ lut = <<>>
    /\ \/ file = [exists |-> FALSE]
       \/ \E size \in FileSizes, head4 \in {"DDS ", "RIFF"} :
              file = [exists |-> TRUE, size |-> size, head4 |-> head4]
    /\ header = [from |-> 0, len |-> 0]
    /\ pixel_data = [from |-> 0, len |-> 0]
    /\ ret = [kind |-> "none"]
    /\ QuadtreeIdle
    /\ DesignIdle
    /\ TextIdle

Init == InitQuadtree \/ InitDesign \/ InitLoad \/ InitConvert \/ InitDds

Next ==
    \/ build_quadtree
    \/ enumerate_term \/ make_meshgrid \/ fill_column
    \/ save_to_txt \/ load_strip \/ load_parse \/ load_reshape
    \/ dds_open \/ dds_read_header \/ dds_read_pixels

Spec == Init /\ [][Next]_vars

(***************************************************************************)
(* Properties of build_quadtree and fit_bilinear_plane.                    *)
(***************************************************************************)
QuadtreeFinished == mode = "quadtree" /\ pc \in {"returned", "raised"}

InLeaf(l, r, c) == l.i0 <= r /\ r < l.i1 /\ l.j0 <= c /\ c < l.j1

IsWholeGrid(l) == l.i0 = 0 /\ l.i1 = H /\ l.j0 = 0 /\ l.j1 = W

\* C1: when the root call build_quadtree(lut, 0, H, 0, W, ...) has finished,
\* every cell (r, c) of the grid lies in exactly one of the leaves it
\* returned: the leaves cover [0,H) x [0,W) without gap or overlap.
C1_LeavesPartitionGrid ==
    QuadtreeFinished =>
        \A r \in 0..(H - 1), c \in 0..(W - 1) :
            Cardinality({e \in 1..Len(leaves) : InLeaf(leaves[e], r, c)}) = 1

C3_LeafDepthBounded ==
    mode = "quadtree" => \A e \in 1..Len(leaves) : leaves[e].depth <= max_depth0

\* C4: build_quadtree ends by returning leaves for every input, and a root
\* call with no remaining depth or with a side of at most 4 returns a
\* single leaf record, whatever its error and the threshold.
C4_TerminatesInLeaf ==
    QuadtreeFinished =>
        /\ pc = "returned"
        /\ Len(leaves) >= 1
        /\ (max_depth0 = 0 \/ H <= 4 \/ W <= 4) =>
               (Len(leaves) = 1 /\ IsWholeGrid(leaves[1]))

\* C9: for a region of n >= 1 rows and m >= 1 columns fit_bilinear_plane
\* does not fail; its matrix has n*m rows, the row of flattened position
\* p = r*m + c is [1, r_norm[r], c_norm[c]], matching lut_region.ravel(),
\* and it returns three coefficients.
C9_FitMatrixPerSample ==
    (mode = "quadtree" /\ fit.called /\ fit.n >= 1 /\ fit.m >= 1) =>
        /\ ~fit.raised
        /\ DOMAIN fit.X = 0..(fit.n * fit.m - 1)
        /\ DOMAIN fit.y = DOMAIN fit.X
        /\ \A p \in DOMAIN fit.X :
               fit.X[p] = <<One, fit.r_norm[p \div fit.m], fit.c_norm[p % fit.m]>>
        /\ Len(fit.coeffs) = 3

(***************************************************************************)
(* Properties of main's term enumeration and design matrix.                *)
(***************************************************************************)
TermsEnumerated == mode = "design" /\ pc \in {"meshgrid", "columns", "lstsq", "raised"}

LexLess(s, t) == s[1] < t[1] \/ (s[1] = t[1] /\ s[2] < t[2])

\* C5: for a total degree deg the enumeration yields exactly
\* (deg+1)(deg+2)/2 pairwise distinct terms, exactly the pairs (i, j) with
\* i, j >= 0 and i + j <= deg, with i ascending and, for each i, j ascending.
C5_TriangularTerms ==
    TermsEnumerated =>
        /\ Len(terms) = ((deg + 1) * (deg + 2)) \div 2
        /\ \A a, b \in 1..Len(terms) : a # b => terms[a] # terms[b]
        /\ {terms[a] : a \in 1..Len(terms)} =
               {t \in (0..deg) \X (0..deg) : t[1] + t[2] <= deg}
        /\ \A a, b \in 1..Len(terms) : a < b => LexLess(terms[a], terms[b])

\* the enumeration of a degree with cross terms has finished
C5_Witness == TermsEnumerated /\ pc = "meshgrid" /\ deg = 3 /\ Len(terms) = 10

\* C6: the design matrix has H*W rows and one column per term; column k
\* holds the k-th term, row n is evaluated at (r[n div W], c[n mod W]), the
\* coordinates of the sample that lut.ravel() places at index n.
C6_DesignMatrixRowMajor ==
    (mode = "design" /\ pc # "terms") =>
        /\ pc # "raised"
        /\ pc = "lstsq" =>
              /\ DOMAIN X = 0..(H * W - 1)
              /\ DOMAIN target = DOMAIN X
              /\ \A n \in DOMAIN X :
                    /\ Len(X[n]) = Len(terms)
                    /\ target[n] = lut[n \div W][n % W]
                    /\ \A col \in 1..Len(terms) :
                          RatEq(X[n][col],
                                RatMul(chebval(linspace(H)[n \div W], terms[col][1]),
                                       chebval(linspace(W)[n % W], terms[col][2])))

\* a matrix of a non-square grid with several terms is complete
C6_Witness ==
    /\ mode = "design" /\ pc = "lstsq"
    /\ H = 2 /\ W = 3 /\ deg = 2
    /\ k = Len(terms) /\ Size(X) = 6 /\ Size(target) = 6

(***************************************************************************)
(* Properties of the loader and of the converter's text.                   *)
(***************************************************************************)
\* the text does not consist of a '[', a list and a ']'
BracketMismatch(text) ==
    LET s == strip(text)
    IN  Len(s) < 2 \/ s[1] # "[" \/ s[Len(s)] # "]"

\* a token between the separators of the stripped text is not a number
NonNumericToken(text) ==
    LET s == strip(text)
        toks == split(s, ",")
        Clean(p) ==
            LET t0 == IF p = 1 /\ toks[p] # <<>> /\ toks[p][1] = "["
                      THEN Tail(toks[p]) ELSE toks[p]
                t1 == IF p = Len(toks) /\ t0 # <<>> /\ t0[Len(t0)] = "]"
                      THEN SubSeq(t0, 1, Len(t0) - 1) ELSE t0
            IN  t1
    IN  \E p \in 1..Len(toks) : ~float(Clean(p)).ok

\* C7: no sample grid is produced from a malformed text, one with a
\* non-numeric token or without its leading '[' or trailing ']'.
C7_MalformedTextRejected ==
    (mode = "load" /\ pc = "loaded") =>
        ~(BracketMismatch(content) \/ NonNumericToken(content))

ValuesParsed == mode = "convert" /\ pc \in {"reshape", "loaded", "ValueError"}

SameValues ==
    /\ pc # "ValueError"
    /\ Len(data) = Len(values)
    /\ \A p \in 1..Len(values) : RatEq(data[p], values[p])

\* C10 as stated: the text save_to_txt writes for a list of any length,
\* 0 included, is parsed by the loader into the same values in the same
\* order.
C10_RoundTripAnyLength == ValuesParsed => SameValues

\* C10: the text save_to_txt writes for a list of at least one value is
\* parsed by the loader into the same number of values in the same order.
C10_RoundTripNonEmpty == (ValuesParsed /\ Len(values) >= 1) => SameValues

\* a list that crosses the wrap after ten values has been read back
C10_Witness ==
    /\ mode = "convert" /\ pc = "loaded"
    /\ Len(values) = 11 /\ Len(data) = 11
    /\ \E p \in 1..Len(content) : content[p] = "\n"

(***************************************************************************)
(* Properties of read_dds_rgba16f.                                         *)
(***************************************************************************)
DdsFinished == mode = "dds" /\ pc = "done" /\ file.exists

\* the number of bytes of the file after the 128 bytes of the header
PayloadBytes == Max(file.size - HeaderBytes, 0)

MagicValid == file.size >= 4 /\ file.head4 = "DDS "

RaisedIncomplete == ret.kind = "raise" /\ ret.message = "Incomplete file"

ReturnedFullPayload ==
    /\ ret.kind = "return"
    /\ ret.pixel_data = [from |-> HeaderBytes, len |-> 128 * 128 * 4 * 2]
    /\ ret.width = 128
    /\ ret.height = 128

\* C8 as stated, on the files that start with the magic: read_dds_rgba16f
\* fails with the incomplete-data error whenever the number of payload
\* bytes differs from 128*128*4*2, and when it succeeds it returns that
\* many bytes with width and height 128.
C8_FailsUnlessExactPayload ==
    (DdsFinished /\ MagicValid) =>
        /\ PayloadBytes # 128 * 128 * 4 * 2 => RaisedIncomplete
        /\ ret.kind = "return" => ReturnedFullPayload

\* C8: read_dds_rgba16f fails whenever there are fewer than 128*128*4*2
\* payload bytes, with the incomplete-data error if the file starts with
\* the magic; a file with the magic and at least that many payload bytes
\* is read, and whenever the function returns it returns exactly the first
\* 128*128*4*2 payload bytes with width and height 128.
C8_FailsOnShortPayload ==
    DdsFinished =>
        /\ PayloadBytes < 128 * 128 * 4 * 2 =>
               (ret.kind = "raise" /\ (MagicValid => RaisedIncomplete))
        /\ (MagicValid /\ PayloadBytes >= 128 * 128 * 4 * 2) => ret.kind = "return"
        /\ ret.kind = "return" => ReturnedFullPayload

\* a file one byte short has been refused
C8_Witness ==
    /\ DdsFinished /\ MagicValid
    /\ PayloadBytes = 128 * 128 * 4 * 2 - 1
    /\ RaisedIncomplete

====
